---------------------------- MODULE Spec2Model ----------------------------
(***************************************************************************)
(* Model of the stepper "motor show" sketch (AccelStepper version) and of  *)
(* the serial command loop that drives it.                                 *)
(*                                                                         *)
(* The sketch is single threaded: loop() polls the serial receive buffer,  *)
(* and on 'M' runs moveMotorSequence() to completion (outbound move, a     *)
(* 3000 ms delay, return move).  The only concurrency is the UART receive  *)
(* path, which appends bytes to the receive buffer at any time.            *)
(*                                                                         *)
(* The motion-profile generator (stepper.moveTo / run / distanceToGo) is   *)
(* a library the sketch calls; its source is not part of the repository,   *)
(* so it is modelled from section 4.3 of the specification.  Speeds are    *)
(* kept as squares (steps^2/s^2) so that the ramp v^2 = 2*a*n stays in     *)
(* integers.  Wall-clock step timing is abstracted: a call of run() either *)
(* finds a step due or does not.                                           *)
(***************************************************************************)
EXTENDS Integers, Sequences, FiniteSets, TLC

VARIABLES
    pc,            \* control location of the sketch
    rx,            \* serial receive buffer: bytes arrived and not yet read
    consumed,      \* bytes read by Serial.read(), in order (history)
    log,           \* lines written by Serial.println, in order
    currentPos,    \* stepper: tracked position (steps from base)
    targetPos,     \* stepper: target of the current move
    speedSq,       \* stepper: square of the commanded speed (steps/s)^2
    maxSpeed,      \* stepper: configured speed ceiling (steps/s)
    acceleration,  \* stepper: configured ramp rate (steps/s^2)
    dwellElapsed,  \* ms elapsed since the outbound busy-wait was left
    accelCount,    \* speed recomputations of the current move that raised the speed
    decelCount,    \* speed recomputations of the current move that lowered the speed
    peakSq,        \* highest speedSq commanded during the current move
    outPhase       \* stepper: phase (0..3) driven on the four output lines, -1 before the first step

vars == << pc, rx, consumed, log, currentPos, targetPos, speedSq, maxSpeed,
           acceleration, dwellElapsed, accelCount, decelCount, peakSq, outPhase >>

motor == << currentPos, targetPos, speedSq, accelCount, decelCount, peakSq, outPhase >>

----------------------------------------------------------------------------
(* Program constants *)

stepsPerRevolution == 1536

DEFAULT_MAX_SPEED == 400

DEFAULT_ACCELERATION == 200

DwellMs == 3000

(* Bounds of the model *)

\* bytes the host sends in one run of the model
MaxBytes == 2

\* granularity, in ms, at which the passing of time is observed during delay()
TickMs == 750

\* longest move explored by the single-move specification
MaxMove == 820

\* the bytes the host may send: the command 'M' and two noise bytes
Bytes == {"M", "m", "x"}

----------------------------------------------------------------------------
(* The status lines *)

BannerLine == "Setup complete. AccelStepper configured."

ReceivedLine == "M received, starting sequence..."

MovingLine == "Moving to target..."

WaitingLine == "Waiting..."

ReturningLine == "Returning to base..."

CompleteLine == "Sequence complete."

\* Serial.println(line)
Println(l, line) == Append(l, line)

----------------------------------------------------------------------------
(* Motion-profile generator *)

Abs(x) == IF x < 0 THEN -x ELSE x

Min(a, b) == IF a < b THEN a ELSE b

Max(a, b) == IF a > b THEN a ELSE b

Sign(x) == IF x > 0 THEN 1 ELSE IF x < 0 THEN -1 ELSE 0

\* stepper.distanceToGo()
DistanceToGo == targetPos - currentPos

\* steps needed to decelerate to zero from speed^2 = v2 at rate a
StepsToStop(v2, a) == v2 \div (2 * a)

\* the speed for the next interval, given the remaining distance togo:
\* accelerate while togo exceeds the stopping distance, otherwise decelerate;
\* clamp to vmax; zero exactly when the target is reached.  A zero speed
\* ceiling or a zero acceleration produces no motion.
NewSpeedSq(togo, v2, vmax, a) ==
    IF togo = 0 \/ vmax = 0 \/ a = 0 THEN 0
    ELSE IF Abs(togo) > StepsToStop(v2, a)
         THEN Min(v2 + 2 * a, vmax * vmax)
         ELSE Max(v2 - 2 * a, Min(2 * a, vmax * vmax))

\* bookkeeping of one speed recomputation from v2 to w2
Recount(v2, w2) ==
    /\ accelCount' = IF w2 > v2 THEN accelCount + 1 ELSE accelCount
    /\ decelCount' = IF w2 < v2 THEN decelCount + 1 ELSE decelCount
    /\ peakSq' = Max(peakSq, w2)

\* stepper.moveTo(absolute): a new target starts a new move and computes
\* the speed of its first interval; the same target changes nothing.
MoveTo(absolute) ==
    IF targetPos = absolute
    THEN UNCHANGED motor
    ELSE LET w2 == NewSpeedSq(absolute - currentPos, speedSq, maxSpeed, acceleration)
         IN /\ targetPos' = absolute
            /\ currentPos' = currentPos
            /\ speedSq' = w2
            /\ accelCount' = IF w2 > speedSq THEN 1 ELSE 0
            /\ decelCount' = IF w2 < speedSq THEN 1 ELSE 0
            /\ peakSq' = w2
            /\ outPhase' = outPhase

\* the phase of the four output lines that holds the motor at position p
StepPhase(p) == p % 4

\* RunStep emitting two step pulses in one call
RunStep_Double ==
    /\ speedSq # 0
    /\ DistanceToGo # 0
    /\ LET p  == currentPos + 2 * Sign(DistanceToGo)
           w2 == NewSpeedSq(targetPos - p, speedSq, maxSpeed, acceleration)
       IN /\ currentPos' = p
          /\ speedSq' = w2
          /\ Recount(speedSq, w2)
          /\ outPhase' = StepPhase(p)
    /\ UNCHANGED targetPos

\* stepper.run() when a step is due: one step pulse towards the target,
\* then the speed for the next interval.
RunStep ==
    /\ speedSq # 0
    /\ DistanceToGo # 0
    /\ LET p  == currentPos + Sign(DistanceToGo)
           w2 == NewSpeedSq(targetPos - p, speedSq, maxSpeed, acceleration)
       IN /\ currentPos' = p
          /\ speedSq' = w2
          /\ Recount(speedSq, w2)
          /\ outPhase' = StepPhase(p)
    /\ UNCHANGED targetPos

\* stepper.run() when no step is due yet (or there is nothing to do)
RunIdle == UNCHANGED motor

\* stepper.run(): emits a step if one is due and there is distance to go,
\* and returns at once otherwise
Run(due) ==
    IF due /\ speedSq # 0 /\ DistanceToGo # 0 THEN RunStep ELSE RunIdle

----------------------------------------------------------------------------
(* The sketch *)

Init ==
    /\ pc = "setup"
    /\ rx = << >>
    /\ consumed = << >>
    /\ log = << >>
    /\ currentPos = 0
    /\ targetPos = 0
    /\ speedSq = 0
    /\ maxSpeed = 0
    /\ acceleration = 0
    /\ dwellElapsed = 0
    /\ accelCount = 0
    /\ decelCount = 0
    /\ peakSq = 0
    /\ outPhase = -1

\* Setup with the speed ceiling set to 800, the value the sketch's notes
\* suggest for a quick test
Setup_Fast ==
    /\ pc = "setup"
    /\ maxSpeed' = 2 * DEFAULT_MAX_SPEED
    /\ acceleration' = DEFAULT_ACCELERATION
    /\ log' = Println(log, BannerLine)
    /\ pc' = "loop"
    /\ UNCHANGED << rx, consumed, motor, dwellElapsed >>

\* setup(): open the serial port, configure the profile, print the banner
Setup ==
    /\ pc = "setup"
    /\ maxSpeed' = DEFAULT_MAX_SPEED
    /\ acceleration' = DEFAULT_ACCELERATION
    /\ log' = Println(log, BannerLine)
    /\ pc' = "loop"
    /\ UNCHANGED << rx, consumed, motor, dwellElapsed >>

\* The UART receive path: a byte sent by the host is stored in the receive
\* buffer, whatever the sketch is doing.  mid records whether a sequence
\* was executing when the byte arrived.
SerialArrive ==
    /\ pc \notin {"setup", "f_setup"}
    /\ Len(rx) + Len(consumed) < MaxBytes
    /\ \E b \in Bytes :
          rx' = Append(rx, [byte |-> b, mid |-> (pc \notin {"loop", "f_loop"})])
    /\ UNCHANGED << pc, consumed, log, motor, maxSpeed, acceleration, dwellElapsed >>

\* LoopEmpty with an else branch that reports the empty input
LoopEmpty_Noisy ==
    /\ pc = "loop"
    /\ Len(rx) = 0
    /\ log' = Println(log, "No command.")
    /\ UNCHANGED << pc, rx, consumed, motor, maxSpeed, acceleration, dwellElapsed >>

\* loop() with Serial.available() = 0
LoopEmpty ==
    /\ pc = "loop"
    /\ Len(rx) = 0
    /\ UNCHANGED vars

\* LoopIgnore with a case-insensitive comparison: 'm' starts a sequence too
LoopIgnore_AnyCase ==
    /\ pc = "loop"
    /\ Len(rx) > 0
    /\ Head(rx).byte # "M"
    /\ rx' = Tail(rx)
    /\ consumed' = Append(consumed, Head(rx))
    /\ IF Head(rx).byte = "m"
       THEN /\ log' = Println(Println(log, ReceivedLine), MovingLine)
            /\ MoveTo(stepsPerRevolution)
            /\ dwellElapsed' = 0
            /\ pc' = "outbound"
            /\ UNCHANGED << maxSpeed, acceleration >>
       ELSE UNCHANGED << pc, log, motor, maxSpeed, acceleration, dwellElapsed >>

\* LoopIgnore that reports the byte it does not recognise
LoopIgnore_Reports ==
    /\ pc = "loop"
    /\ Len(rx) > 0
    /\ Head(rx).byte # "M"
    /\ rx' = Tail(rx)
    /\ consumed' = Append(consumed, Head(rx))
    /\ log' = Println(log, "Unknown command.")
    /\ UNCHANGED << pc, motor, maxSpeed, acceleration, dwellElapsed >>

\* loop() reading a byte other than 'M'
LoopIgnore ==
    /\ pc = "loop"
    /\ Len(rx) > 0
    /\ Head(rx).byte # "M"
    /\ rx' = Tail(rx)
    /\ consumed' = Append(consumed, Head(rx))
    /\ UNCHANGED << pc, log, motor, maxSpeed, acceleration, dwellElapsed >>

\* LoopM that also empties the receive buffer before starting the sequence
LoopM_Flush ==
    /\ pc = "loop"
    /\ Len(rx) > 0
    /\ Head(rx).byte = "M"
    /\ rx' = << >>
    /\ consumed' = consumed \o rx
    /\ log' = Println(Println(log, ReceivedLine), MovingLine)
    /\ MoveTo(stepsPerRevolution)
    /\ dwellElapsed' = 0
    /\ pc' = "outbound"
    /\ UNCHANGED << maxSpeed, acceleration >>

\* loop() reading 'M': the status line, then moveMotorSequence() up to its
\* first busy-wait: "Moving to target..." and moveTo(stepsPerRevolution)
LoopM ==
    /\ pc = "loop"
    /\ Len(rx) > 0
    /\ Head(rx).byte = "M"
    /\ rx' = Tail(rx)
    /\ consumed' = Append(consumed, Head(rx))
    /\ log' = Println(Println(log, ReceivedLine), MovingLine)
    /\ MoveTo(stepsPerRevolution)
    /\ dwellElapsed' = 0
    /\ pc' = "outbound"
    /\ UNCHANGED << maxSpeed, acceleration >>

\* OutboundStep stepping with the direction reversed
OutboundStep_Away ==
    /\ pc = "outbound"
    /\ DistanceToGo # 0
    /\ speedSq # 0
    /\ currentPos' = currentPos - Sign(DistanceToGo)
    /\ outPhase' = StepPhase(currentPos')
    /\ UNCHANGED << targetPos, speedSq, accelCount, decelCount, peakSq >>
    /\ UNCHANGED << pc, rx, consumed, log, maxSpeed, acceleration, dwellElapsed >>

\* outbound busy-wait, distanceToGo() != 0: run() emits a step
OutboundStep ==
    /\ pc = "outbound"
    /\ DistanceToGo # 0
    /\ RunStep
    /\ UNCHANGED << pc, rx, consumed, log, maxSpeed, acceleration, dwellElapsed >>

\* outbound busy-wait, distanceToGo() != 0: run() finds no step due
OutboundPoll ==
    /\ pc = "outbound"
    /\ DistanceToGo # 0
    /\ RunIdle
    /\ UNCHANGED << pc, rx, consumed, log, maxSpeed, acceleration, dwellElapsed >>

\* OutboundDone without the busy-wait: run() is called once, not polled
OutboundDone_Early ==
    /\ pc = "outbound"
    /\ log' = Println(log, WaitingLine)
    /\ dwellElapsed' = 0
    /\ pc' = "dwell"
    /\ UNCHANGED << rx, consumed, motor, maxSpeed, acceleration >>

\* outbound busy-wait left: "Waiting..." and the start of delay(3000)
OutboundDone ==
    /\ pc = "outbound"
    /\ DistanceToGo = 0
    /\ log' = Println(log, WaitingLine)
    /\ dwellElapsed' = 0
    /\ pc' = "dwell"
    /\ UNCHANGED << rx, consumed, motor, maxSpeed, acceleration >>

\* DelayTick that also polls the serial input during the dwell
DelayTick_Polls ==
    /\ pc = "dwell"
    /\ dwellElapsed < DwellMs
    /\ dwellElapsed' = dwellElapsed + TickMs
    /\ IF Len(rx) > 0
       THEN rx' = Tail(rx) /\ consumed' = Append(consumed, Head(rx))
       ELSE UNCHANGED << rx, consumed >>
    /\ UNCHANGED << pc, log, motor, maxSpeed, acceleration >>

\* DelayTick that releases the motor outputs while waiting
DelayTick_Release ==
    /\ pc = "dwell"
    /\ dwellElapsed < DwellMs
    /\ dwellElapsed' = dwellElapsed + TickMs
    /\ outPhase' = -1
    /\ UNCHANGED << currentPos, targetPos, speedSq, accelCount, decelCount, peakSq >>
    /\ UNCHANGED << pc, rx, consumed, log, maxSpeed, acceleration >>

\* delay(3000) still waiting: time passes
DelayTick ==
    /\ pc = "dwell"
    /\ dwellElapsed < DwellMs
    /\ dwellElapsed' = dwellElapsed + TickMs
    /\ UNCHANGED << pc, rx, consumed, log, motor, maxSpeed, acceleration >>

\* DelayDone returning to stepsPerRevolution instead of 0
DelayDone_WrongTarget ==
    /\ pc = "dwell"
    /\ dwellElapsed >= DwellMs
    /\ log' = Println(log, ReturningLine)
    /\ MoveTo(stepsPerRevolution)
    /\ pc' = "return"
    /\ UNCHANGED << rx, consumed, maxSpeed, acceleration, dwellElapsed >>

\* DelayDone with the fallback sketch's relative argument given to the
\* absolute moveTo
DelayDone_Relative ==
    /\ pc = "dwell"
    /\ dwellElapsed >= DwellMs
    /\ log' = Println(log, ReturningLine)
    /\ MoveTo(-stepsPerRevolution)
    /\ pc' = "return"
    /\ UNCHANGED << rx, consumed, maxSpeed, acceleration, dwellElapsed >>

\* DelayDone after delay(300)
DelayDone_Short ==
    /\ pc = "dwell"
    /\ dwellElapsed >= 300
    /\ log' = Println(log, ReturningLine)
    /\ MoveTo(0)
    /\ pc' = "return"
    /\ UNCHANGED << rx, consumed, maxSpeed, acceleration, dwellElapsed >>

\* delay(3000) returns: "Returning to base..." and moveTo(0)
DelayDone ==
    /\ pc = "dwell"
    /\ dwellElapsed >= DwellMs
    /\ log' = Println(log, ReturningLine)
    /\ MoveTo(0)
    /\ pc' = "return"
    /\ UNCHANGED << rx, consumed, maxSpeed, acceleration, dwellElapsed >>

\* ReturnStep with an abort path: pending input cancels the sequence
ReturnStep_Abort ==
    /\ pc = "return"
    /\ DistanceToGo # 0
    /\ IF Len(rx) > 0
       THEN pc' = "loop" /\ UNCHANGED motor
       ELSE RunStep /\ UNCHANGED pc
    /\ UNCHANGED << rx, consumed, log, maxSpeed, acceleration, dwellElapsed >>

\* return busy-wait, distanceToGo() != 0: run() emits a step
ReturnStep ==
    /\ pc = "return"
    /\ DistanceToGo # 0
    /\ RunStep
    /\ UNCHANGED << pc, rx, consumed, log, maxSpeed, acceleration, dwellElapsed >>

\* return busy-wait, distanceToGo() != 0: run() finds no step due
ReturnPoll ==
    /\ pc = "return"
    /\ DistanceToGo # 0
    /\ RunIdle
    /\ UNCHANGED << pc, rx, consumed, log, maxSpeed, acceleration, dwellElapsed >>

\* return busy-wait left: moveMotorSequence() returns, loop() prints
\* "Sequence complete." and returns
ReturnDone ==
    /\ pc = "return"
    /\ DistanceToGo = 0
    /\ log' = Println(log, CompleteLine)
    /\ pc' = "loop"
    /\ UNCHANGED << rx, consumed, motor, maxSpeed, acceleration, dwellElapsed >>

Next ==
    \/ Setup
    \/ SerialArrive
    \/ LoopEmpty
    \/ LoopIgnore
    \/ LoopM
    \/ OutboundStep
    \/ OutboundPoll
    \/ OutboundDone
    \/ DelayTick
    \/ DelayDone
    \/ ReturnStep
    \/ ReturnPoll
    \/ ReturnDone

Spec == Init /\ [][Next]_vars

----------------------------------------------------------------------------
(* Derived quantities used by the properties *)

\* number of occurrences of line in the log
Count(line) == Cardinality({i \in DOMAIN log : log[i] = line})

\* sequences started, and sequences completed, so far
Started == Count(ReceivedLine)

Completed == Count(CompleteLine)

\* every byte that has arrived so far, in arrival order
Stream == consumed \o rx

\* number of 'M' bytes in a sequence of received bytes
NumM(s) == Cardinality({i \in DOMAIN s : s[i].byte = "M"})

LastLine == IF Len(log) = 0 THEN "" ELSE log[Len(log)]

\* the status lines of one sequence, in program order
SeqLines == << ReceivedLine, MovingLine, WaitingLine, ReturningLine, CompleteLine >>

----------------------------------------------------------------------------
(* C1: round trip.  Whenever the sketch is idle in loop(), that is before   *)
(* the first sequence and after every completed sequence, the tracked      *)
(* position is exactly 0 and nothing remains to go.                        *)
C1_RoundTrip ==
    pc = "loop" => (currentPos = 0 /\ DistanceToGo = 0)

\* two sequences have completed and the sketch is idle again
C1_Witness ==
    /\ pc = "loop"
    /\ Completed = 2
    /\ LastLine = CompleteLine
    /\ currentPos = 0

(* C2: command filtering.  If the bytes received so far contain exactly    *)
(* one 'M', then at most one sequence has been started, and one has been   *)
(* started exactly if that 'M' has been read: reading the other bytes      *)
(* starts nothing.                                                         *)
C2_CommandFiltering ==
    NumM(Stream) = 1 =>
        /\ Started = NumM(consumed)
        /\ Count(MovingLine) = NumM(consumed)
        /\ Started <= 1

\* noise, then 'M': both read, one sequence run to completion
C2_Witness ==
    /\ Len(consumed) = 2
    /\ consumed[1].byte = "m"
    /\ consumed[2].byte = "M"
    /\ Started = 1
    /\ Completed = 1
    /\ pc = "loop"

(* C3: fixed phase and log order.  After the banner the log is always a    *)
(* prefix of repetitions of the five status lines in program order, and    *)
(* the last line tells the phase: "Moving to target..." only during the    *)
(* outbound move to stepsPerRevolution, "Waiting..." only in the dwell     *)
(* with the outbound move finished at stepsPerRevolution, "Returning to    *)
(* base..." only during the return move to 0 after the full dwell, and     *)
(* "Sequence complete." only when idle again at position 0.                *)
C3_FixedOrder ==
    /\ pc # "setup" => (Len(log) >= 1 /\ log[1] = BannerLine)
    /\ \A i \in DOMAIN log : i >= 2 => log[i] = SeqLines[((i - 2) % 5) + 1]
    /\ LastLine = MovingLine <=> pc = "outbound"
    /\ LastLine = WaitingLine <=> pc = "dwell"
    /\ LastLine = ReturningLine <=> pc = "return"
    /\ LastLine \in {BannerLine, CompleteLine} <=> pc = "loop"
    /\ pc = "outbound" => targetPos = stepsPerRevolution
    /\ pc = "dwell" => (currentPos = stepsPerRevolution /\ DistanceToGo = 0)
    /\ pc = "return" => (targetPos = 0 /\ dwellElapsed >= DwellMs)
    /\ LastLine = CompleteLine => (currentPos = 0 /\ DistanceToGo = 0)

\* a whole sequence has been logged, phase by phase
C3_Witness ==
    /\ Len(log) = 6
    /\ log = << BannerLine >> \o SeqLines
    /\ pc = "loop"

----------------------------------------------------------------------------
(* The processor never stops executing the sketch and time keeps passing:  *)
(* every step of the sketch that is possible is eventually taken, and a    *)
(* step of the motor that remains due is eventually emitted by the polling *)
(* busy-wait.  The host is under no obligation to send anything.           *)
Fairness ==
    /\ WF_vars(Setup)
    /\ WF_vars(LoopIgnore)
    /\ WF_vars(LoopM)
    /\ WF_vars(OutboundStep)
    /\ WF_vars(OutboundDone)
    /\ WF_vars(DelayTick)
    /\ WF_vars(DelayDone)
    /\ WF_vars(ReturnStep)
    /\ WF_vars(ReturnDone)

FairSpec == Spec /\ Fairness

Moving == pc \in {"outbound", "return"}

InSequence == pc \in {"outbound", "dwell", "return"}

(* C4: monotonic convergence.  Within one move (the target unchanged),     *)
(* every step-function call that emits a step leaves the absolute          *)
(* remaining distance no larger than before, and a move in progress        *)
(* always reaches remaining distance exactly 0.                            *)
C4_MonotonicConvergence ==
    /\ [][(Moving /\ targetPos' = targetPos /\ currentPos' # currentPos)
            => Abs(targetPos' - currentPos') <= Abs(targetPos - currentPos)]_vars
    /\ (Moving ~> (Moving /\ DistanceToGo = 0))

\* the return move has converged from stepsPerRevolution to 0
C4_Witness ==
    /\ pc = "return"
    /\ DistanceToGo = 0
    /\ currentPos = 0
    /\ accelCount > 0
    /\ decelCount > 0

(* C6: no cancellation, guaranteed completion.  Once an 'M' has been read  *)
(* the sequence always reaches "Sequence complete." with the sketch idle   *)
(* again, whatever arrives on the serial input in the meantime.            *)
C6_GuaranteedCompletion ==
    \A k \in 1..MaxBytes :
        (InSequence /\ Started = k) ~> (pc = "loop" /\ Completed = k /\ LastLine = CompleteLine)

\* a sequence has completed although an 'M' arrived while it was executing
C6_Witness ==
    /\ pc = "loop"
    /\ Completed = 1
    /\ LastLine = CompleteLine
    /\ Len(rx) = 1
    /\ rx[1].mid /\ rx[1].byte = "M"

(* C5 as stated: a byte that arrived while a sequence was executing is     *)
(* never read.                                                             *)
C5_NeverRead ==
    \A i \in DOMAIN consumed : ~consumed[i].mid

(* C5 as amended: while a sequence is executing nothing is read and the    *)
(* receive buffer only grows; bytes are read one at a time, oldest first,  *)
(* by loop() only; and every byte received, also one that arrived during   *)
(* a sequence, is eventually read once the sequence has completed.         *)
C5_ReadAfterSequence ==
    /\ [][/\ InSequence =>
               (consumed' = consumed /\ Len(rx') >= Len(rx) /\ SubSeq(rx', 1, Len(rx)) = rx)
          /\ consumed' # consumed =>
               (pc = "loop" /\ Len(rx) > 0 /\ consumed' = Append(consumed, Head(rx))
                  /\ rx' = Tail(rx))]_vars
    /\ \A n \in 1..MaxBytes : (Len(Stream) >= n) ~> (Len(consumed) >= n /\ Len(Stream) >= n)

\* an 'M' that arrived during the first sequence has been read after it and
\* has started the second sequence
C5_Witness ==
    /\ Len(consumed) = 2
    /\ consumed[2].mid
    /\ consumed[2].byte = "M"
    /\ Started = 2
    /\ Completed = 1

----------------------------------------------------------------------------
(* C7: speed bound.  In every reachable state the commanded speed, and so  *)
(* the highest speed commanded in the current move, is at most the         *)
(* configured maxSpeed of 400 steps/s (compared as squares).               *)
C7_SpeedBound ==
    /\ speedSq <= DEFAULT_MAX_SPEED * DEFAULT_MAX_SPEED
    /\ peakSq <= DEFAULT_MAX_SPEED * DEFAULT_MAX_SPEED

\* the return move runs at exactly maxSpeed
C7_Witness ==
    /\ pc = "return"
    /\ speedSq = DEFAULT_MAX_SPEED * DEFAULT_MAX_SPEED
    /\ DistanceToGo # 0

(* C9: dwell duration.  When the return move starts, the time elapsed      *)
(* since the outbound move completed is at least the 3000 ms dwell and     *)
(* exceeds it by less than one clock tick.                                 *)
C9_DwellDuration ==
    pc = "return" => (dwellElapsed >= DwellMs /\ dwellElapsed < DwellMs + TickMs)

\* the return move has just been started, after the dwell
C9_Witness ==
    /\ pc = "return"
    /\ currentPos = stepsPerRevolution
    /\ targetPos = 0
    /\ dwellElapsed >= DwellMs

(* C10: non-blocking dispatch.  A step taken from the top of loop() with   *)
(* an empty receive buffer reads nothing, prints nothing, starts no        *)
(* sequence and leaves the motor alone; a byte is read only at the top of  *)
(* loop(), only when one is available, and one at a time.                  *)
C10_NonBlockingDispatch ==
    [][/\ (pc = "loop" /\ Len(rx) = 0) =>
             (consumed' = consumed /\ log' = log /\ pc' = "loop" /\ motor' = motor)
       /\ Len(consumed') <= Len(consumed) + 1
       /\ Len(consumed') > Len(consumed) => (pc = "loop" /\ Len(rx) > 0)]_vars

\* idle with an empty receive buffer after a byte has been read and ignored
C10_Witness ==
    /\ pc = "loop"
    /\ Len(rx) = 0
    /\ Len(consumed) = 1
    /\ consumed[1].byte = "x"
    /\ Started = 0

----------------------------------------------------------------------------
(* Single moves of any length, from rest at the base position, with the    *)
(* configured profile: the motion-profile generator on its own.            *)

Moves == {d \in -MaxMove..MaxMove : d # 0} \cup {stepsPerRevolution, -stepsPerRevolution}

InitMove ==
    /\ pc = "ready"
    /\ rx = << >>
    /\ consumed = << >>
    /\ log = << >>
    /\ currentPos = 0
    /\ targetPos = 0
    /\ speedSq = 0
    /\ maxSpeed = DEFAULT_MAX_SPEED
    /\ acceleration = DEFAULT_ACCELERATION
    /\ dwellElapsed = 0
    /\ accelCount = 0
    /\ decelCount = 0
    /\ peakSq = 0
    /\ outPhase = -1

\* moveTo(d)
MoveBegin ==
    /\ pc = "ready"
    /\ \E d \in Moves : MoveTo(d)
    /\ pc' = "move"
    /\ UNCHANGED << rx, consumed, log, maxSpeed, acceleration, dwellElapsed >>

\* while (distanceToGo() != 0) run();  a step is due
MoveStep ==
    /\ pc = "move"
    /\ DistanceToGo # 0
    /\ RunStep
    /\ UNCHANGED << pc, rx, consumed, log, maxSpeed, acceleration, dwellElapsed >>

\* MoveDone leaving the busy-wait one step early
MoveDone_Early ==
    /\ pc = "move"
    /\ Abs(DistanceToGo) <= 1
    /\ pc' = "moved"
    /\ UNCHANGED << rx, consumed, log, motor, maxSpeed, acceleration, dwellElapsed >>

\* the busy-wait is left
MoveDone ==
    /\ pc = "move"
    /\ DistanceToGo = 0
    /\ pc' = "moved"
    /\ UNCHANGED << rx, consumed, log, motor, maxSpeed, acceleration, dwellElapsed >>

\* run() called once more after the busy-wait was left, with nothing to go
MoveIdleCall ==
    /\ pc = "moved"
    /\ \E due \in BOOLEAN : Run(due)
    /\ UNCHANGED << pc, rx, consumed, log, maxSpeed, acceleration, dwellElapsed >>

NextMove == MoveBegin \/ MoveStep \/ MoveDone \/ MoveIdleCall

SpecMove == InitMove /\ [][NextMove]_vars

\* steps of ramp between rest and maxSpeed at the configured acceleration
RampSteps == StepsToStop(DEFAULT_MAX_SPEED * DEFAULT_MAX_SPEED, DEFAULT_ACCELERATION)

(* C8: ramp symmetry.  At the end of every move the number of speed        *)
(* recomputations that raised the speed equals the number that lowered it. *)
(* A move that reached maxSpeed ramped up and down over RampSteps          *)
(* recomputations each; a move of fewer than 2*RampSteps - 1 steps never   *)
(* reaches maxSpeed and its peak is the one its ramp count gives           *)
(* (triangular); a move of at least that many steps reaches maxSpeed.      *)
C8_RampSymmetry ==
    pc = "moved" =>
        /\ accelCount = decelCount
        /\ speedSq = 0
        /\ peakSq = maxSpeed * maxSpeed => accelCount = RampSteps
        /\ Abs(targetPos) < 2 * RampSteps - 1 =>
              (peakSq < maxSpeed * maxSpeed /\ peakSq = 2 * acceleration * accelCount)
        /\ Abs(targetPos) >= 2 * RampSteps - 1 => peakSq = maxSpeed * maxSpeed

\* the 1536-step move has ended after a trapezoidal profile
C8_Witness ==
    /\ pc = "moved"
    /\ targetPos = stepsPerRevolution
    /\ peakSq = maxSpeed * maxSpeed
    /\ accelCount = RampSteps
    /\ decelCount = RampSteps

----------------------------------------------------------------------------
(* C11: silent ignore.  A step that reads a byte other than 'M' removes    *)
(* that byte from the receive buffer and leaves the tracked position, the  *)
(* target, the speed, the motor output, the status log and the control     *)
(* location unchanged.                                                     *)
C11_SilentIgnore ==
    [][(Len(consumed') > Len(consumed) /\ Len(rx) > 0 /\ Head(rx).byte # "M") =>
          /\ consumed' = Append(consumed, Head(rx))
          /\ rx' = Tail(rx)
          /\ motor' = motor
          /\ log' = log
          /\ pc' = pc]_vars

\* two noise bytes have been read and nothing but the banner was printed
C11_Witness ==
    /\ Len(consumed) = 2
    /\ consumed[1].byte = "x"
    /\ consumed[2].byte = "m"
    /\ log = << BannerLine >>
    /\ currentPos = 0
    /\ targetPos = 0
    /\ outPhase = -1

----------------------------------------------------------------------------
----------------------------------------------------------------------------
(* C13: deceleration lands on the target.  The commanded speed is zero     *)
(* exactly when nothing remains to go, so each leg starts from rest (idle  *)
(* at 0, dwelling at stepsPerRevolution) and ends at rest on its target;   *)
(* a leg under way has ramped up from zero, and its last step is taken at  *)
(* the lowest speed of the ramp.                                           *)
C13_LandsOnTarget ==
    pc # "setup" =>
        /\ speedSq = 0 <=> DistanceToGo = 0
        /\ pc = "loop" => (speedSq = 0 /\ currentPos = 0)
        /\ pc = "dwell" => (speedSq = 0 /\ currentPos = stepsPerRevolution)
        /\ (Moving /\ DistanceToGo # 0) => accelCount >= 1
        /\ (Moving /\ Abs(DistanceToGo) = 1) => speedSq = 2 * acceleration
        /\ (Moving /\ DistanceToGo = 0) => (decelCount = accelCount /\ peakSq > 0)

\* the return leg has come to rest on the base after a full ramp down
C13_Witness ==
    /\ pc = "return"
    /\ currentPos = 0
    /\ targetPos = 0
    /\ speedSq = 0
    /\ decelCount = RampSteps
    /\ Completed = 0

----------------------------------------------------------------------------
(* C14: exclusive ownership of the motor output.  The tracked position and *)
(* the output phase change only in a step of a busy-wait with distance     *)
(* still to go, and such a step reads nothing, prints nothing and leaves   *)
(* the target and the control location alone; so they are unchanged while  *)
(* the sketch is idle, while the dispatcher reads or logs, and during the  *)
(* whole dwell, in which the position is held at stepsPerRevolution.       *)
C14_ExclusiveOwnership ==
    /\ [][(currentPos' # currentPos \/ outPhase' # outPhase) =>
             /\ Moving
             /\ DistanceToGo # 0
             /\ pc' = pc
             /\ targetPos' = targetPos
             /\ log' = log
             /\ rx' = rx
             /\ consumed' = consumed]_vars
    /\ [](pc = "dwell" => (currentPos = stepsPerRevolution /\ outPhase = StepPhase(stepsPerRevolution)))
    /\ [](pc = "loop" => (currentPos = 0 /\ outPhase \in {-1, StepPhase(0)}))

\* the end of the dwell, with a byte received meanwhile: the motor is held
C14_Witness ==
    /\ pc = "dwell"
    /\ dwellElapsed >= DwellMs
    /\ Len(rx) = 1
    /\ rx[1].mid
    /\ currentPos = stepsPerRevolution
    /\ outPhase = StepPhase(stepsPerRevolution)

----------------------------------------------------------------------------
(* The sketch built with tuned profile constants.  The sketch's tuning     *)
(* notes invite changing DEFAULT_MAX_SPEED and DEFAULT_ACCELERATION;       *)
(* setup() hands whatever they hold to the stepper.  Zero is among the     *)
(* values tried here; negative values, for which the ramp direction is     *)
(* undefined, are not.                                                     *)

TunedMaxSpeeds == {0, DEFAULT_MAX_SPEED}

TunedAccelerations == {0, DEFAULT_ACCELERATION}

\* setup() with the profile constants holding ms and ac
SetupWith(ms, ac) ==
    /\ pc = "setup"
    /\ maxSpeed' = ms
    /\ acceleration' = ac
    /\ log' = Println(log, BannerLine)
    /\ pc' = "loop"
    /\ UNCHANGED << rx, consumed, motor, dwellElapsed >>

SetupTuned ==
    \E ms \in TunedMaxSpeeds, ac \in TunedAccelerations : SetupWith(ms, ac)

NextTuned ==
    \/ SetupTuned
    \/ SerialArrive
    \/ LoopEmpty
    \/ LoopIgnore
    \/ LoopM
    \/ OutboundStep
    \/ OutboundPoll
    \/ OutboundDone
    \/ DelayTick
    \/ DelayDone
    \/ ReturnStep
    \/ ReturnPoll
    \/ ReturnDone

SpecTuned == Init /\ [][NextTuned]_vars

----------------------------------------------------------------------------
(* C16: position and target bounds.  In every reachable state the target   *)
(* is 0 or stepsPerRevolution and the tracked position lies between 0 and  *)
(* stepsPerRevolution: no move overshoots its target or goes below the     *)
(* base.                                                                   *)
C16_Bounds ==
    /\ targetPos \in {0, stepsPerRevolution}
    /\ currentPos >= 0
    /\ currentPos <= stepsPerRevolution

\* the last step but one of the second sequence's return move
C16_Witness ==
    /\ pc = "return"
    /\ Completed = 1
    /\ targetPos = 0
    /\ currentPos = 1

----------------------------------------------------------------------------
(* C17: one sequence per 'M' read.  The bytes received keep their arrival  *)
(* order and are read one at a time; the number of sequences started       *)
(* always equals the number of 'M' bytes read; at most one sequence is     *)
(* under way, and a sequence starts only from the idle loop, at position   *)
(* 0, with every earlier sequence completed.                               *)
C17_OneSequencePerM ==
    /\ [](Started = NumM(consumed))
    /\ [](Completed <= Started /\ Started <= Completed + 1)
    /\ [](InSequence <=> Started = Completed + 1)
    /\ [][/\ \/ Stream' = Stream
             \/ \E b \in Bytes, m \in BOOLEAN : Stream' = Append(Stream, [byte |-> b, mid |-> m])
          /\ Len(consumed') <= Len(consumed) + 1
          /\ Started' # Started =>
                /\ pc = "loop"
                /\ Started' = Started + 1
                /\ Completed = Started
                /\ currentPos = 0
                /\ LastLine \in {BannerLine, CompleteLine}]_vars

\* two 'M' bytes, the second sent after the first sequence had completed,
\* have run two sequences
C17_Witness ==
    /\ Len(consumed) = 2
    /\ consumed[1].byte = "M"
    /\ consumed[2].byte = "M"
    /\ ~consumed[2].mid
    /\ Started = 2
    /\ Completed = 2

----------------------------------------------------------------------------
(* The fallback sketch: the same command loop and sequence, with the       *)
(* fixed-speed Stepper library.  myStepper.step(n) blocks until n steps    *)
(* have been taken, relative to where the motor stands.  Its control       *)
(* locations carry the prefix f_.                                          *)

FallbackStepsPerRevolution == 1536

FallbackRpm == 15

FallbackDwellMs == 3000

FallbackBannerLine == "Fallback Stepper sketch started. Send 'M' over serial to run sequence."

InitFallback ==
    /\ pc = "f_setup"
    /\ rx = << >>
    /\ consumed = << >>
    /\ log = << >>
    /\ currentPos = 0
    /\ targetPos = 0
    /\ speedSq = 0
    /\ maxSpeed = 0
    /\ acceleration = 0
    /\ dwellElapsed = 0
    /\ accelCount = 0
    /\ decelCount = 0
    /\ peakSq = 0
    /\ outPhase = -1

\* setup(): open the serial port, set the fixed speed, print the banner
FSetup ==
    /\ pc = "f_setup"
    /\ maxSpeed' = (FallbackRpm * FallbackStepsPerRevolution) \div 60
    /\ log' = Println(log, FallbackBannerLine)
    /\ pc' = "f_loop"
    /\ UNCHANGED << rx, consumed, motor, acceleration, dwellElapsed >>

\* myStepper.step(n) is entered: n steps to take from here, at the fixed speed
StepBegin(n) ==
    /\ targetPos' = currentPos + n
    /\ speedSq' = IF n = 0 THEN 0 ELSE maxSpeed * maxSpeed
    /\ peakSq' = IF n = 0 THEN 0 ELSE maxSpeed * maxSpeed
    /\ UNCHANGED << currentPos, accelCount, decelCount, outPhase >>

\* myStepper.step(n) takes one of its steps
StepOne ==
    /\ DistanceToGo # 0
    /\ currentPos' = currentPos + Sign(DistanceToGo)
    /\ outPhase' = StepPhase(currentPos')
    /\ speedSq' = IF targetPos = currentPos' THEN 0 ELSE speedSq
    /\ UNCHANGED << targetPos, accelCount, decelCount, peakSq >>

\* loop() with Serial.available() = 0
FLoopEmpty ==
    /\ pc = "f_loop"
    /\ Len(rx) = 0
    /\ UNCHANGED vars

\* loop() reading a byte other than 'M'
FLoopIgnore ==
    /\ pc = "f_loop"
    /\ Len(rx) > 0
    /\ Head(rx).byte # "M"
    /\ rx' = Tail(rx)
    /\ consumed' = Append(consumed, Head(rx))
    /\ UNCHANGED << pc, log, motor, maxSpeed, acceleration, dwellElapsed >>

\* loop() reading 'M': the status line, then moveMotorSequence() up to the
\* entry of myStepper.step(stepsPerRevolution)
FLoopM ==
    /\ pc = "f_loop"
    /\ Len(rx) > 0
    /\ Head(rx).byte = "M"
    /\ rx' = Tail(rx)
    /\ consumed' = Append(consumed, Head(rx))
    /\ log' = Println(Println(log, ReceivedLine), MovingLine)
    /\ StepBegin(FallbackStepsPerRevolution)
    /\ dwellElapsed' = 0
    /\ pc' = "f_outbound"
    /\ UNCHANGED << maxSpeed, acceleration >>

\* myStepper.step(stepsPerRevolution) under way
FOutboundStep ==
    /\ pc = "f_outbound"
    /\ StepOne
    /\ UNCHANGED << pc, rx, consumed, log, maxSpeed, acceleration, dwellElapsed >>

\* myStepper.step(stepsPerRevolution) returns: "Waiting..." and the start
\* of delay(3000)
FOutboundDone ==
    /\ pc = "f_outbound"
    /\ DistanceToGo = 0
    /\ log' = Println(log, WaitingLine)
    /\ dwellElapsed' = 0
    /\ pc' = "f_dwell"
    /\ UNCHANGED << rx, consumed, motor, maxSpeed, acceleration >>

\* delay(3000) still waiting: time passes
FDelayTick ==
    /\ pc = "f_dwell"
    /\ dwellElapsed < FallbackDwellMs
    /\ dwellElapsed' = dwellElapsed + TickMs
    /\ UNCHANGED << pc, rx, consumed, log, motor, maxSpeed, acceleration >>

\* FDelayDone turning the same way again on the return leg
FDelayDone_SameWay ==
    /\ pc = "f_dwell"
    /\ dwellElapsed >= FallbackDwellMs
    /\ log' = Println(log, ReturningLine)
    /\ StepBegin(FallbackStepsPerRevolution)
    /\ pc' = "f_return"
    /\ UNCHANGED << rx, consumed, maxSpeed, acceleration, dwellElapsed >>

\* delay(3000) returns: "Returning to base..." and the entry of
\* myStepper.step(-stepsPerRevolution)
FDelayDone ==
    /\ pc = "f_dwell"
    /\ dwellElapsed >= FallbackDwellMs
    /\ log' = Println(log, ReturningLine)
    /\ StepBegin(-FallbackStepsPerRevolution)
    /\ pc' = "f_return"
    /\ UNCHANGED << rx, consumed, maxSpeed, acceleration, dwellElapsed >>

\* myStepper.step(-stepsPerRevolution) under way
FReturnStep ==
    /\ pc = "f_return"
    /\ StepOne
    /\ UNCHANGED << pc, rx, consumed, log, maxSpeed, acceleration, dwellElapsed >>

\* myStepper.step(-stepsPerRevolution) returns, moveMotorSequence()
\* returns, loop() prints "Sequence complete." and returns
FReturnDone ==
    /\ pc = "f_return"
    /\ DistanceToGo = 0
    /\ log' = Println(log, CompleteLine)
    /\ pc' = "f_loop"
    /\ UNCHANGED << rx, consumed, motor, maxSpeed, acceleration, dwellElapsed >>

NextFallback ==
    \/ FSetup
    \/ SerialArrive
    \/ FLoopEmpty
    \/ FLoopIgnore
    \/ FLoopM
    \/ FOutboundStep
    \/ FOutboundDone
    \/ FDelayTick
    \/ FDelayDone
    \/ FReturnStep
    \/ FReturnDone

\* either sketch, flashed and started
SpecEither == (Init \/ InitFallback) /\ [][Next \/ NextFallback]_vars

\* the phase of the sequence a sketch is in, whichever sketch it is
Phase ==
    CASE pc \in {"setup", "f_setup"}       -> "setup"
      [] pc \in {"loop", "f_loop"}         -> "loop"
      [] pc \in {"outbound", "f_outbound"} -> "outbound"
      [] pc \in {"dwell", "f_dwell"}       -> "dwell"
      [] pc \in {"return", "f_return"}     -> "return"

IsFallback == pc \in {"f_setup", "f_loop", "f_outbound", "f_dwell", "f_return"}

\* the status lines after the startup banner
LogAfterBanner == IF Len(log) = 0 THEN << >> ELSE Tail(log)

\* status lines printed so far in the sequence of the current phase
LinesInPhase ==
    CASE Phase = "outbound" -> 2
      [] Phase = "dwell"    -> 3
      [] Phase = "return"   -> 4
      [] OTHER              -> 5

(* C18: fallback equivalence.  In both sketches what is observable is the  *)
(* same function of the bytes read so far and of the phase: after its own  *)
(* banner, each sketch has printed the five status lines in order once for *)
(* every 'M' read, the last block cut at the current phase; the position   *)
(* is stepsPerRevolution with nothing to go in the dwell and 0 with        *)
(* nothing to go when idle, the outbound phase heads for                   *)
(* stepsPerRevolution and the return phase, entered after the full dwell,  *)
(* for 0.  Hence for the same input stream the two sketches print the      *)
(* same lines, pass the same phases and hold the same positions.           *)
C18_FallbackEquivalence ==
    /\ Phase # "setup" =>
          (Len(log) >= 1 /\ log[1] = IF IsFallback THEN FallbackBannerLine ELSE BannerLine)
    /\ Len(LogAfterBanner) =
          IF NumM(consumed) = 0 THEN 0 ELSE 5 * (NumM(consumed) - 1) + LinesInPhase
    /\ \A i \in DOMAIN LogAfterBanner : LogAfterBanner[i] = SeqLines[((i - 1) % 5) + 1]
    /\ Phase \in {"outbound", "dwell", "return"} => NumM(consumed) >= 1
    /\ Phase \in {"setup", "loop"} => (currentPos = 0 /\ DistanceToGo = 0)
    /\ Phase = "dwell" => (currentPos = stepsPerRevolution /\ DistanceToGo = 0)
    /\ Phase = "outbound" => targetPos = stepsPerRevolution
    /\ Phase = "return" => (targetPos = 0 /\ dwellElapsed >= DwellMs)
    /\ currentPos >= 0 /\ currentPos <= stepsPerRevolution

\* the fallback sketch has run one sequence and printed the same five lines
C18_Witness ==
    /\ pc = "f_loop"
    /\ log = << FallbackBannerLine >> \o SeqLines
    /\ Len(consumed) = 1
    /\ currentPos = 0
    /\ outPhase = StepPhase(0)

=============================================================================
